---------------------------- MODULE Spec2Model ----------------------------
(***************************************************************************)
(* Model of geeni.py: a Streamlit script that loads an FTDNA Chromosome    *)
(* Browser CSV (load_data), filters its rows by a minimum strength (the    *)
(* min_cm slider) and draws one ridge per chromosome (create_topography).  *)
(*                                                                         *)
(* Units.  Centimorgans are held in tenths of a cM (60 is 6.0 cM), so that *)
(* values below 1 cM exist and the "{val:.1f}" hover label is exact.       *)
(* Base-pair positions are held in Mbp (max_position is 250, for           *)
(* 250_000_000), which keeps k * max_position inside TLC's integers.       *)
(***************************************************************************)
EXTENDS Integers, Sequences, FiniteSets, TLC

VARIABLES pc, uploaded_file, df, min_cm, df_filtered, df_topo, fig, ridge_c,
          messages, chart, table

vars == <<pc, uploaded_file, df, min_cm, df_filtered, df_topo, fig, ridge_c,
          messages, chart, table>>

---------------------------------------------------------------------------
(* Bounds of the input family.                                             *)

\* largest number of menu segments in one hand-made file
MaxSegs == 3

\* largest number of distinct matches in one generated many-match file
MaxMatches == 12

---------------------------------------------------------------------------
(* Program constants.                                                      *)

NumPoints == 500

max_position == 250

NumChromosomes == 22

MatchLimit == 10

TopN == 5

SliderMin == 1

SliderMax == 20

\* a strength of n cM, in the model's tenths
cM(n) == n * 10

---------------------------------------------------------------------------
(* Text and cells.                                                         *)

\* A header label: a core without outer whitespace, and the whitespace
\* around it.
Label(lead, core, trail) == [lead |-> lead, core |-> core, trail |-> trail]

Plain(core) == Label(0, core, 0)

\* str.strip()
strip(l) == Plain(l.core)

\* CSV cells: empty, a numeric literal (n, with its text s when the text is
\* ever looked at), or other text.
Empty == [kind |-> "empty", n |-> 0, s |-> ""]

NumCell(n, s) == [kind |-> "num", n |-> n, s |-> s]

TxtCell(s) == [kind |-> "text", n |-> 0, s |-> s]

\* Loaded values: NaN, a number, or a Python str.
NaN == [kind |-> "nan", n |-> 0, s |-> ""]

Num(n) == [kind |-> "num", n |-> n, s |-> ""]

Str(s) == [kind |-> "str", n |-> 0, s |-> s]

ChromText == <<"1", "2", "3", "4", "5", "6", "7", "8", "9", "10", "11",
               "12", "13", "14", "15", "16", "17", "18", "19", "20", "21",
               "22">>

\* str(i) for i in range(1, 23)
str(i) == ChromText[i]

\* int(chrom)
int(s) == CHOOSE i \in 1..NumChromosomes : ChromText[i] = s

chromosomes == [i \in 1..NumChromosomes |-> str(i)]

required_cols == <<Plain("Chromosome"), Plain("Start Location"),
                   Plain("End Location"), Plain("Centimorgans"),
                   Plain("Match Name")>>

Range(s) == {s[i] : i \in DOMAIN s}

---------------------------------------------------------------------------
(* Data frames.                                                            *)

None == [isNone |-> TRUE, columns |-> <<>>, rows |-> <<>>]

Frame(columns, rows) == [isNone |-> FALSE, columns |-> columns, rows |-> rows]

ColIndex(columns, core) ==
    CHOOSE j \in DOMAIN columns : columns[j] = Plain(core)

\* row[name] of a row of frame d
Get(d, row, core) == row[ColIndex(d.columns, core)]

\* pd.read_csv's dtype inference for one column: numeric when every
\* non-empty cell is a numeric literal, else object (str values).
ColumnIsNumeric(cells, j) ==
    \A i \in DOMAIN cells : cells[i][j].kind \in {"num", "empty"}

Infer(cells, i, j) ==
    LET c == cells[i][j] IN
    IF c.kind = "empty" THEN NaN
    ELSE IF ColumnIsNumeric(cells, j) THEN Num(c.n)
    ELSE Str(c.s)

read_csv(file) ==
    Frame(file.header,
          [i \in DOMAIN file.cells |->
              [j \in DOMAIN file.header |-> Infer(file.cells, i, j)]])

StripColumns(d) == Frame([j \in DOMAIN d.columns |-> strip(d.columns[j])], d.rows)

\* Variant of HasRequired that is content with any one required label.
HasAnyRequired(d) == \E c \in Range(required_cols) : c \in Range(d.columns)

HasRequired(d) == \A c \in Range(required_cols) : c \in Range(d.columns)

\* Variant of Ge in which a missing value passes the comparison.
GeOrNaN(v, x) == v.kind # "num" \/ v.n >= x

\* Series >= scalar: False on NaN
Ge(v, x) == v.kind = "num" /\ v.n >= x

\* Series == str: False on NaN and on every number
EqStr(v, s) == v.kind = "str" /\ v.s = s

\* Variant of FilterRows that drops the rows equal to the threshold.
FilterRowsStrict(d, m) ==
    LET Keep(row) == /\ Get(d, row, "Centimorgans").kind = "num"
                     /\ Get(d, row, "Centimorgans").n > cM(m)
    IN  Frame(d.columns, SelectSeq(d.rows, Keep))

\* df[df['Centimorgans'] >= min_cm]
FilterRows(d, m) ==
    LET Keep(row) == Ge(Get(d, row, "Centimorgans"), cM(m))
    IN  Frame(d.columns, SelectSeq(d.rows, Keep))

---------------------------------------------------------------------------
(* create_topography: match selection.                                     *)

\* df['Match Name'].unique(): NaN counts as one of the values
unique(d) == {Get(d, row, "Match Name") : row \in Range(d.rows)}

\* the groups of df.groupby('Match Name'): NaN keys are dropped
Groups(d) == {v \in unique(d) : v.kind # "nan"}

RECURSIVE SumCm(_, _, _)
\* .['Centimorgans'].sum() over the rows of d.rows named v
SumCm(d, rows, v) ==
    IF rows = <<>> THEN 0
    ELSE (IF Get(d, Head(rows), "Match Name") = v
          THEN Get(d, Head(rows), "Centimorgans").n ELSE 0)
         + SumCm(d, Tail(rows), v)

match_totals(d) == [v \in Groups(d) |-> SumCm(d, d.rows, v)]

Min(a, b) == IF a <= b THEN a ELSE b

\* Variant of HeadChoices that sorts ascending: the five smallest totals.
HeadChoicesAscending(d) ==
    LET t == [v \in Groups(d) |-> SumCm(d, d.rows, v)]
        G == Groups(d)
    IN  {S \in SUBSET G :
            /\ Cardinality(S) = Min(TopN, Cardinality(G))
            /\ \A a \in S : \A b \in G \ S : t[a] <= t[b]}

\* sort_values(ascending=False).head(5).index: the default sort is not
\* stable, so among equal totals at the cut any choice is a possible result.
HeadChoices(d) ==
    LET t == match_totals(d)
        G == Groups(d)
    IN  {S \in SUBSET G :
            /\ Cardinality(S) = Min(TopN, Cardinality(G))
            /\ \A a \in S : \A b \in G \ S : t[a] >= t[b]}

\* df[df['Match Name'].isin(matches)]
isin(d, matches) ==
    LET Keep(row) == Get(d, row, "Match Name") \in matches
    IN  Frame(d.columns, SelectSeq(d.rows, Keep))

\* Variant of TooMany that already selects at MatchLimit values.
TooManyFromLimit(d) == Cardinality(unique(d)) >= MatchLimit

TooMany(d) == Cardinality(unique(d)) > MatchLimit

---------------------------------------------------------------------------
(* create_topography: one ridge per chromosome.                            *)

Grid == 0..(NumPoints - 1)

\* mask = (x_base >= start) & (x_base <= end), with
\* x_base[k] = k * max_position / (NumPoints - 1); False on NaN
InMask(k, start, end) ==
    /\ start.kind = "num"
    /\ end.kind = "num"
    /\ k * max_position >= start.n * (NumPoints - 1)
    /\ k * max_position <= end.n * (NumPoints - 1)

\* y_base[mask] += cm
AddSegment(d, y, row) ==
    LET start == Get(d, row, "Start Location")
        end == Get(d, row, "End Location")
        cm == Get(d, row, "Centimorgans")
    IN  [k \in Grid |-> IF InMask(k, start, end) THEN y[k] + cm.n ELSE y[k]]

RECURSIVE Accumulate(_, _, _)
\* for _, row in chrom_data.iterrows(): ...
Accumulate(d, rows, y) ==
    IF rows = <<>> THEN y
    ELSE Accumulate(d, Tail(rows), AddSegment(d, y, Head(rows)))

\* df[df['Chromosome'] == chrom]
chrom_data(d, chrom) ==
    LET Keep(row) == EqStr(Get(d, row, "Chromosome"), chrom)
    IN  SelectSeq(d.rows, Keep)

y_base(d, chrom) == Accumulate(d, chrom_data(d, chrom), [k \in Grid |-> 0])

MaxOf(S) == CHOOSE m \in S : \A v \in S : v <= m

\* y_base.max()
color_val(y) == MaxOf({y[k] : k \in Grid})

\* Variant of Colour in which exactly 10 cM is already a hill.
ColourHillFromTen(h) ==
    IF h > cM(20) THEN "firebrick"
    ELSE IF h >= cM(10) THEN "forestgreen"
    ELSE IF h > 0 THEN "sandybrown"
    ELSE "aliceblue"

\* Variant of Colour in which exactly 20 cM is already a mountain.
ColourMountainFromTwenty(h) ==
    IF h >= cM(20) THEN "firebrick"
    ELSE IF h > cM(10) THEN "forestgreen"
    ELSE IF h > 0 THEN "sandybrown"
    ELSE "aliceblue"

Colour(h) ==
    IF h > cM(20) THEN "firebrick"
    ELSE IF h > cM(10) THEN "forestgreen"
    ELSE IF h > 0 THEN "sandybrown"
    ELSE "aliceblue"

\* x_base as the sequence of its grid indices
x_index == [j \in 1..NumPoints |-> j - 1]

\* Variant of subset_idx that also takes the points of height 0.
subset_idx_all(y) ==
    LET NonNeg(k) == y[k] >= 0 IN SelectSeq(x_index, NonNeg)

\* np.where(y_base > 0)[0]
subset_idx(y) ==
    LET Positive(k) == y[k] > 0 IN SelectSeq(x_index, Positive)

\* f"Chr {chrom}: {val:.1f} cM"
HoverText(chrom, val) == <<"Chr ", chrom, ": ", val \div 10, ".", val % 10, " cM">>

Level(chrom) == 23 - int(chrom)

LineTrace(chrom, y) ==
    [mode |-> "lines", x |-> x_index, y |-> Level(chrom),
     z |-> [j \in 1..NumPoints |-> y[j - 1]],
     color |-> "black", text |-> <<>>, name |-> chrom]

MarkerTrace(chrom, y, idx, c) ==
    [mode |-> "markers", x |-> idx, y |-> Level(chrom),
     z |-> [j \in DOMAIN idx |-> y[idx[j]]],
     color |-> c,
     text |-> [j \in DOMAIN idx |-> HoverText(chrom, y[idx[j]])],
     name |-> chrom]

\* one iteration of the chromosome loop: the traces it adds and the colour
\* c it chooses
Ridge(d, chrom) ==
    LET y == y_base(d, chrom)
        c == Colour(color_val(y))
        idx == subset_idx(y)
    IN  [c |-> c,
         traces |-> <<LineTrace(chrom, y)>>
                    \o (IF Len(idx) > 0 THEN <<MarkerTrace(chrom, y, idx, c)>>
                        ELSE <<>>)]

\* for i, chrom in enumerate(chromosomes): ...
Ridges(d) == [i \in 1..NumChromosomes |-> Ridge(d, chromosomes[i])]

RECURSIVE Flatten(_, _)
\* fig.data: the traces of iterations i..22, in the order they were added
Flatten(r, i) ==
    IF i > Len(r) THEN <<>> ELSE r[i].traces \o Flatten(r, i + 1)

---------------------------------------------------------------------------
(* Uploaded files.                                                         *)

MatchNames == <<"Aino", "Bertta", "Celia", "Daniel", "Eero", "Fanni",
                "Greta", "Hannu", "Iida", "Jussi", "Kaisa", "Lauri",
                "Minna", "Niilo", "Oona", "Pekka">>

Seg(chr, start, end, cm, name) ==
    [chr |-> chr, start |-> start, end |-> end, cm |-> cm, name |-> name]

\* a chromosome cell holding the number i
ChrCell(i) == NumCell(i, str(i))

Pos(n) == NumCell(n, "")

Who(i) == TxtCell(MatchNames[i])

XRow == Seg(TxtCell("X"), Pos(10), Pos(20), Pos(cM(15)), Who(4))

\* Segments on chromosome 1 that overlap one another (6 + 4 = 10,
\* 8 + 12 = 20, 6 + 8 + 12 = 26 cM), one with start > end and one between
\* two sample points.
Menu ==
    << Seg(ChrCell(1), Pos(0), Pos(250), Pos(cM(6)), Who(1)),
       Seg(ChrCell(1), Pos(50), Pos(150), Pos(cM(8)), Who(2)),
       Seg(ChrCell(1), Pos(100), Pos(200), Pos(cM(12)), Who(1)),
       Seg(ChrCell(1), Pos(100), Pos(120), Pos(cM(4)), Who(3)),
       Seg(ChrCell(22), Pos(200), Pos(100), Pos(cM(9)), Who(2)),
       Seg(ChrCell(2), Pos(1), Pos(1), Pos(cM(7)), Who(3)) >>

RequiredHeader ==
    <<Plain("Match Name"), Plain("Chromosome"), Plain("Start Location"),
      Plain("End Location"), Plain("Centimorgans")>>

FtdnaHeader ==
    <<Plain("First Name"), Plain("Last Name")>> \o RequiredHeader
    \o <<Plain("Matching SNPs")>>

PaddedHeader ==
    <<Label(0, "Match Name", 1), Label(1, "Chromosome", 0),
      Label(1, "Start Location", 1), Label(0, "End Location", 2),
      Label(2, "Centimorgans", 0)>>

Without(core) ==
    LET Other(l) == l.core # core IN SelectSeq(FtdnaHeader, Other)

CellOf(row, core) ==
    CASE core = "Match Name" -> row.name
      [] core = "Chromosome" -> row.chr
      [] core = "Start Location" -> row.start
      [] core = "End Location" -> row.end
      [] core = "Centimorgans" -> row.cm
      [] core = "Matching SNPs" -> Pos(500)
      [] OTHER -> TxtCell("-")

MkFile(header, rows) ==
    [readable |-> TRUE, header |-> header,
     cells |-> [i \in DOMAIN rows |->
                  [j \in DOMAIN header |-> CellOf(rows[i], header[j].core)]]]

Unreadable == [readable |-> FALSE, header |-> <<>>, cells |-> <<>>]

Pick(menu, I) ==
    LET In(j) == j \in I
        idx == SelectSeq([j \in 1..Len(menu) |-> j], In)
    IN  [k \in DOMAIN idx |-> menu[idx[k]]]

\* Hand-made files: up to MaxSegs segments of the menu, with or without a
\* segment on X (whose presence makes the Chromosome column text).
SegmentFiles ==
    {MkFile(RequiredHeader, Pick(Menu, I) \o tail) :
        I \in {J \in SUBSET (1..Len(Menu)) : Cardinality(J) <= MaxSegs},
        tail \in {<<>>, <<XRow>>}}

\* Match i of a many-match file: one segment of 3.0, 3.0, 4.0, 4.0, ... cM
ManyRow(i) ==
    Seg(ChrCell(((i - 1) % NumChromosomes) + 1), Pos(10 * i), Pos(10 * i + 60),
        Pos(cM(2 + ((i + 1) \div 2))), Who(i))

ManyRows(n, variant) ==
    [i \in 1..n |->
        IF variant = "weak" /\ i = n
        THEN [ManyRow(i) EXCEPT !.cm = Pos(5)]
        ELSE ManyRow(i)]
    \o <<[XRow EXCEPT !.name = Who(1), !.cm = Pos(cM(6))]>>
    \o (IF variant = "nullname"
        THEN <<Seg(ChrCell(3), Pos(0), Pos(250), Pos(cM(19)), Empty)>>
        ELSE <<>>)

\* Files with MatchLimit - 1 .. MaxMatches distinct matches; "weak" gives the
\* last match a 0.5 cM segment, "nullname" adds a segment without a name.
ManyFiles ==
    {MkFile(FtdnaHeader, ManyRows(n, v)) :
        n \in (MatchLimit - 1)..MaxMatches, v \in {"plain", "weak", "nullname"}}

NullRow(core) ==
    LET r == Seg(ChrCell(1), Pos(100), Pos(200), Pos(cM(12)), Who(2))
    IN  CASE core = "Match Name" -> [r EXCEPT !.name = Empty]
          [] core = "Chromosome" -> [r EXCEPT !.chr = Empty]
          [] core = "Start Location" -> [r EXCEPT !.start = Empty]
          [] core = "End Location" -> [r EXCEPT !.end = Empty]
          [] core = "Centimorgans" -> [r EXCEPT !.cm = Empty]

RequiredCores == {c.core : c \in Range(required_cols)}

\* Files with one empty cell in a required column
NullFiles ==
    {MkFile(RequiredHeader, <<Menu[1], NullRow(core), XRow>>) :
        core \in RequiredCores}

\* Files that differ in their header line, and one that cannot be parsed
HeaderFiles ==
    {MkFile(h, <<Menu[1], Menu[3], XRow>>) :
        h \in {PaddedHeader, FtdnaHeader} \cup {Without(c) : c \in RequiredCores}}
    \cup {Unreadable}

Files == SegmentFiles \cup ManyFiles \cup NullFiles \cup HeaderFiles

---------------------------------------------------------------------------
(* The script.                                                             *)

\* load_data: the frame it returns (None on an error) and what it reports
load_data(file) ==
    IF ~file.readable
    THEN [df |-> None, error |-> <<"error: read">>]
    ELSE LET d == StripColumns(read_csv(file))
         IN  IF ~HasRequired(d)
             THEN [df |-> None, error |-> <<"error: columns">>]
             ELSE [df |-> d, error |-> <<>>]

Init ==
    /\ pc = "idle"
    /\ uploaded_file = Unreadable
    /\ df = None
    /\ min_cm = 5
    /\ df_filtered = None
    /\ df_topo = None
    /\ fig = <<>>
    /\ ridge_c = <<>>
    /\ messages = <<>>
    /\ chart = <<>>
    /\ table = None

\* st.file_uploader: a file is uploaded and the script runs from the top
Upload(f) ==
    /\ pc \in {"idle", "done", "halt"}
    /\ uploaded_file' = f
    /\ pc' = "load"
    /\ df' = None
    /\ min_cm' = 5
    /\ df_filtered' = None
    /\ df_topo' = None
    /\ fig' = <<>>
    /\ ridge_c' = <<>>
    /\ messages' = <<>>
    /\ chart' = <<>>
    /\ table' = None

\* df = load_data(uploaded_file); if df is not None: st.success(...)
LoadData ==
    /\ pc = "load"
    /\ LET r == load_data(uploaded_file)
       IN  /\ df' = r.df
           /\ messages' = IF r.df.isNone THEN r.error ELSE <<"success">>
           /\ pc' = IF r.df.isNone THEN "halt" ELSE "slider"
    /\ UNCHANGED <<uploaded_file, min_cm, df_filtered, df_topo, fig, ridge_c,
                   chart, table>>

\* min_cm = st.slider(...), df_filtered = df[df['Centimorgans'] >= min_cm]
Slider(m) ==
    /\ pc = "slider"
    /\ min_cm' = m
    /\ df_filtered' = FilterRows(df, m)
    /\ pc' = "topography"
    /\ UNCHANGED <<uploaded_file, df, df_topo, fig, ridge_c, messages, chart,
                   table>>

\* fig = create_topography(df_filtered)
CreateTopography ==
    /\ pc = "topography"
    /\ \E kept \in (IF TooMany(df_filtered) THEN HeadChoices(df_filtered)
                    ELSE {{}}) :
         LET d == IF TooMany(df_filtered) THEN isin(df_filtered, kept)
                  ELSE df_filtered
             r == Ridges(d)
         IN  /\ df_topo' = d
             /\ messages' = IF TooMany(df_filtered)
                            THEN Append(messages, "warning: top 5")
                            ELSE messages
             /\ fig' = Flatten(r, 1)
             /\ ridge_c' = [i \in DOMAIN r |-> r[i].c]
    /\ pc' = "render"
    /\ UNCHANGED <<uploaded_file, df, min_cm, df_filtered, chart, table>>

\* st.plotly_chart(fig), st.dataframe(df_filtered)
Render ==
    /\ pc = "render"
    /\ chart' = fig
    /\ table' = df_filtered
    /\ pc' = "done"
    /\ UNCHANGED <<uploaded_file, df, min_cm, df_filtered, df_topo, fig,
                   ridge_c, messages>>

Next ==
    \/ \E f \in Files : Upload(f)
    \/ LoadData
    \/ \E m \in SliderMin..SliderMax : Slider(m)
    \/ CreateTopography
    \/ Render

Spec == Init /\ [][Next]_vars

---------------------------------------------------------------------------
(* Vocabulary of the properties.                                           *)

\* create_topography has returned
Built == pc \in {"render", "done"}

\* load_data has returned
Loaded == pc \notin {"idle", "load"}

Notice == "warning: top 5"

Noticed == \E j \in DOMAIN messages : messages[j] = Notice

\* the line trace of chromosome i in the figure
LineOf(i) ==
    fig[CHOOSE j \in DOMAIN fig : fig[j].mode = "lines" /\ fig[j].name = str(i)]

\* the marker traces of chromosome i in the figure
MarkersOf(i) ==
    {j \in DOMAIN fig : fig[j].mode = "markers" /\ fig[j].name = str(i)}

MaxHeight(i) == MaxOf(Range(LineOf(i).z))

\* the value v names chromosome i, as a number or as text
Denotes(v, i) ==
    \/ v.kind = "num" /\ v.n = i
    \/ v.kind = "str" /\ v.s = str(i)

\* the value v is the text of chromosome i
IsText(v, i) == v.kind = "str" /\ v.s = str(i)

Field(d, row, core) == row[CHOOSE j \in DOMAIN d.columns : d.columns[j].core = core]

Strong(d, row, m) ==
    /\ Field(d, row, "Centimorgans").kind = "num"
    /\ Field(d, row, "Centimorgans").n >= 10 * m

Weak(d, row, m) ==
    /\ Field(d, row, "Centimorgans").kind = "num"
    /\ Field(d, row, "Centimorgans").n < 10 * m

\* [start, end, cm] of the rows of d picked by Want
Intervals(d, Want(_)) ==
    LET rs == SelectSeq(d.rows, Want)
    IN  [j \in DOMAIN rs |->
            [start |-> Field(d, rs[j], "Start Location"),
             end |-> Field(d, rs[j], "End Location"),
             cm |-> Field(d, rs[j], "Centimorgans").n]]

\* sample point k lies in [start, end]
Covers(iv, k) ==
    /\ iv.start.kind = "num"
    /\ iv.end.kind = "num"
    /\ iv.start.n * (NumPoints - 1) <= k * max_position
    /\ k * max_position <= iv.end.n * (NumPoints - 1)

RECURSIVE SumAt(_, _)
\* the strengths of the intervals that cover sample point k, added up
SumAt(ivs, k) ==
    IF ivs = <<>> THEN 0
    ELSE (IF Covers(Head(ivs), k) THEN Head(ivs).cm ELSE 0) + SumAt(Tail(ivs), k)

RECURSIVE SumAll(_)
SumAll(ivs) == IF ivs = <<>> THEN 0 ELSE Head(ivs).cm + SumAll(Tail(ivs))

\* the non-null names of a frame, and the total strength of one of them
NamesOf(d) ==
    {Field(d, row, "Match Name") : row \in Range(d.rows)} \ {NaN}

TotalOf(d, v) ==
    LET Mine(row) == Field(d, row, "Match Name") = v
    IN  SumAll(Intervals(d, Mine))

RowsNamed(d, S) ==
    LET Mine(row) == Field(d, row, "Match Name") \in S
    IN  SelectSeq(d.rows, Mine)

Band(h) ==
    CASE h > 200 -> "firebrick"
      [] h > 100 /\ h <= 200 -> "forestgreen"
      [] h > 0 /\ h <= 100 -> "sandybrown"
      [] h = 0 -> "aliceblue"

---------------------------------------------------------------------------
(* C1.  Heights are sums.                                                  *)

\* C1: after create_topography, at every sample point of every chromosome
\* 1..22 the height is the sum of the strengths of the surviving rows of
\* that chromosome whose [start, end] covers the point (rows with
\* start > end or covering no sample point add nothing).
C1_HeightIsSumOfCoveringRows ==
    Built =>
        \A i \in 1..NumChromosomes :
            LET OfChromosome(row) == Denotes(Field(df_topo, row, "Chromosome"), i)
                ivs == Intervals(df_topo, OfChromosome)
                z == LineOf(i).z
            IN  \A k \in Grid : z[k + 1] = SumAt(ivs, k)

---------------------------------------------------------------------------
(* C2.  The threshold filter.                                              *)

---------------------------------------------------------------------------
(* C3.  Match selection.                                                   *)

\* the distinct Match Name values of a frame, a missing name being one
ValuesOf(d) == {Field(d, row, "Match Name") : row \in Range(d.rows)}

\* the retained groups are five, no discarded named group has a larger
\* total, and exactly the rows of the retained groups are left
TopFiveKept ==
    LET names == NamesOf(df_filtered)
        kept == NamesOf(df_topo)
    IN  /\ Cardinality(kept) = 5
        /\ kept \subseteq names
        /\ \A a \in kept : \A b \in names \ kept :
              TotalOf(df_filtered, a) >= TotalOf(df_filtered, b)
        /\ df_topo.rows = RowsNamed(df_filtered, kept)

\* C3 as claimed: with more than 10 distinct Match Name values exactly the
\* 5 groups of highest total Centimorgans are retained and every row of the
\* others is discarded; with 10 or fewer no row is discarded.
C3_TopFiveOfNames ==
    Built =>
        IF Cardinality(NamesOf(df_filtered)) > 10
        THEN TopFiveKept
        ELSE df_topo = df_filtered

\* C3 as amended: the count that decides is that of unique(), in which a
\* missing Match Name is one more value; rows without a name belong to no
\* group and are discarded whenever the selection is made.
C3_TopFiveOfValues ==
    Built =>
        IF Cardinality(ValuesOf(df_filtered)) > 10
        THEN TopFiveKept
        ELSE df_topo = df_filtered

\* a selection was made among groups of which two tie at the cut
C3_Witness ==
    /\ Built
    /\ Cardinality(ValuesOf(df_filtered)) > 10
    /\ \E a \in NamesOf(df_topo) :
          \E b \in NamesOf(df_filtered) \ NamesOf(df_topo) :
              TotalOf(df_filtered, a) = TotalOf(df_filtered, b)

---------------------------------------------------------------------------
(* C4, C5.  Terrain colours.                                               *)

\* C4 as claimed: a maximum height of exactly 10 cM is a hill
\* (forestgreen), and so is one of exactly 20 cM.
C4_TenIsHill ==
    Built =>
        \A i \in 1..NumChromosomes :
            /\ MaxHeight(i) = 100 => ridge_c[i] = "forestgreen"
            /\ MaxHeight(i) = 200 => ridge_c[i] = "forestgreen"

\* C4 as amended: the colour depends on the maximum height alone, exactly
\* 10 cM is an island (sandybrown) and exactly 20 cM is a hill
\* (forestgreen, not firebrick).
C4_TenIsIsland ==
    Built =>
        LET seen == {<<MaxHeight(i), ridge_c[i]>> : i \in 1..NumChromosomes}
        IN  \A p \in seen :
                /\ p[1] = 100 => p[2] = "sandybrown"
                /\ p[1] = 200 => p[2] = "forestgreen"
                /\ \A q \in seen : p[1] = q[1] => p[2] = q[2]

\* a chromosome whose maximum height is exactly 10 cM
C4_Witness == Built /\ \E i \in 1..NumChromosomes : MaxHeight(i) = 100

\* C5: per chromosome, with h its maximum height, the colour is firebrick
\* iff h > 20, forestgreen iff 10 < h <= 20, sandybrown iff 0 < h <= 10 and
\* aliceblue iff h = 0; it is the colour of the chromosome's markers, whose
\* heights are those of the track.
C5_Bands ==
    Built =>
        \A i \in 1..NumChromosomes :
            LET h == MaxHeight(i)
                z == LineOf(i).z
            IN  /\ ridge_c[i] = "firebrick" <=> h > 200
                /\ ridge_c[i] = "forestgreen" <=> (h > 100 /\ h <= 200)
                /\ ridge_c[i] = "sandybrown" <=> (h > 0 /\ h <= 100)
                /\ ridge_c[i] = "aliceblue" <=> h = 0
                /\ \A j \in MarkersOf(i) :
                      /\ fig[j].color = ridge_c[i]
                      /\ \A n \in DOMAIN fig[j].x :
                            fig[j].z[n] = z[fig[j].x[n] + 1]

\* a figure with a mountain whose track also has lower points, and a sea
C5_Witness ==
    /\ Built
    /\ \E i \in 1..NumChromosomes :
          /\ ridge_c[i] = "firebrick"
          /\ \E j \in MarkersOf(i) :
                \E n \in DOMAIN fig[j].z : fig[j].z[n] <= 100
    /\ \E i \in 1..NumChromosomes : ridge_c[i] = "aliceblue"

---------------------------------------------------------------------------
(* C6, C7.  load_data.                                                     *)

HeaderCores == {l.core : l \in Range(uploaded_file.header)}

\* some required column of the uploaded file has an empty cell
HasNull ==
    \E i \in DOMAIN uploaded_file.cells :
        \E j \in DOMAIN uploaded_file.header :
            /\ uploaded_file.header[j].core \in RequiredCores
            /\ uploaded_file.cells[i][j].kind = "empty"

NothingProduced ==
    /\ df_filtered.isNone
    /\ df_topo.isNone
    /\ fig = <<>>
    /\ chart = <<>>
    /\ table.isNone

\* C6: for a file that parses, if one of the five required labels is
\* missing after stripping, load_data reports the error and returns None,
\* and the run ends with nothing filtered, built, drawn or tabulated; if
\* all five are there the rows are returned without a column error.
C6_SchemaErrorTerminal ==
    (Loaded /\ uploaded_file.readable) =>
        IF ~(RequiredCores \subseteq HeaderCores)
        THEN /\ df.isNone
             /\ messages = <<"error: columns">>
             /\ pc = "halt"
             /\ NothingProduced
        ELSE /\ ~df.isNone
             /\ Len(df.rows) = Len(uploaded_file.cells)
             /\ \A j \in DOMAIN messages : messages[j] # "error: columns"

\* a file lacking a required column was rejected
C6_Witness ==
    /\ pc = "halt"
    /\ uploaded_file.readable
    /\ messages = <<"error: columns">>

\* C7 as claimed: every row that reaches create_topography has its five
\* required values, and a file with a missing value in one of them is
\* rejected whole by load_data.
C7_NullsRejected ==
    /\ pc \in {"topography", "render", "done"} =>
          \A row \in Range(df_filtered.rows) :
              \A core \in RequiredCores : Field(df_filtered, row, core) # NaN
    /\ (Loaded /\ uploaded_file.readable /\ HasNull) => df.isNone

\* C7 as amended: load_data looks at the labels only; a file with the five
\* labels is returned whole, its empty cells as NaN, and the only rows with
\* a missing value that never reach create_topography are those whose
\* Centimorgans is missing (the threshold filter drops them).
C7_NullsLoaded ==
    /\ (Loaded /\ uploaded_file.readable /\ RequiredCores \subseteq HeaderCores) =>
          /\ ~df.isNone
          /\ messages[1] = "success"
          /\ DOMAIN df.rows = DOMAIN uploaded_file.cells
          /\ \A i \in DOMAIN df.rows : \A j \in DOMAIN df.columns :
                df.rows[i][j] = NaN <=> uploaded_file.cells[i][j].kind = "empty"
    /\ pc \in {"topography", "render", "done"} =>
          /\ \A row \in Range(df_filtered.rows) :
                Field(df_filtered, row, "Centimorgans") # NaN
          /\ \A row \in Range(df.rows) :
                Strong(df, row, min_cm) => row \in Range(df_filtered.rows)

\* a row with a missing required value has reached create_topography
C7_Witness ==
    /\ pc = "topography"
    /\ HasNull
    /\ \E row \in Range(df_filtered.rows) :
          \E core \in RequiredCores : Field(df_filtered, row, core) = NaN

---------------------------------------------------------------------------
(* C8.  Stacked segments.                                                  *)

\* C8: when the surviving rows of a chromosome all cover one common sample
\* point, the maximum height of its track is the sum of their strengths
\* and the colour is that of the sum.
C8_OverlapStacksToSum ==
    Built =>
        \A i \in 1..NumChromosomes :
            LET OfChromosome(row) == Denotes(Field(df_topo, row, "Chromosome"), i)
                ivs == Intervals(df_topo, OfChromosome)
            IN  (/\ ivs # <<>>
                 /\ \E k \in Grid : \A j \in DOMAIN ivs : Covers(ivs[j], k))
                => /\ MaxHeight(i) = SumAll(ivs)
                   /\ ridge_c[i] = Band(SumAll(ivs))

---------------------------------------------------------------------------
(* C9.  Selection and its notice.                                          *)

\* C9 as claimed: at threshold 1 a file with more than 10 distinct match
\* identifiers ends with exactly 5 groups and the notice, and the notice is
\* shown iff rows were discarded by the selection.
C9_FileOverLimit ==
    Built =>
        /\ (min_cm = 1 /\ Cardinality(NamesOf(df)) > 10) =>
              (Cardinality(NamesOf(df_topo)) = 5 /\ Noticed)
        /\ Noticed <=> df_topo # df_filtered

\* C9 as amended: what decides is the number of distinct Match Name values
\* left by the threshold filter (a missing name being one value): above 10,
\* exactly 5 groups are retained and the notice is shown; the notice is
\* shown iff that number is above 10, iff the selection discarded rows.
C9_FilteredOverLimit ==
    Built =>
        /\ Cardinality(ValuesOf(df_filtered)) > 10 =>
              (Cardinality(NamesOf(df_topo)) = 5 /\ Noticed)
        /\ Noticed <=> Cardinality(ValuesOf(df_filtered)) > 10
        /\ Noticed <=> df_topo # df_filtered

\* twelve matches at threshold 1: five are left and the notice is shown
C9_Witness ==
    /\ pc = "done"
    /\ min_cm = 1
    /\ Cardinality(NamesOf(df)) = 12
    /\ Cardinality(NamesOf(df_topo)) = 5
    /\ Noticed

---------------------------------------------------------------------------
(* C10.  Traces.                                                           *)

\* C10: the figure has, for chromosomes 1..22 in ascending order, one line
\* trace over the whole grid at level 23 - chromosome; a chromosome has a
\* marker trace iff some point of its track is above 0, and that trace has
\* one marker per such point and no other, with the point's height and the
\* label "Chr {chromosome}: {height:.1f} cM".
C10_TraceEmission ==
    Built =>
        LET IsLine(t) == t.mode = "lines"
            lines == SelectSeq(fig, IsLine)
        IN  /\ Len(lines) = 22
            /\ \A i \in 1..22 :
                  LET z == lines[i].z
                      positive == {k \in 0..499 : z[k + 1] > 0}
                      M == MarkersOf(i)
                  IN  /\ lines[i].name = str(i)
                      /\ lines[i].y = 23 - i
                      /\ lines[i].x = [j \in 1..500 |-> j - 1]
                      /\ DOMAIN z = 1..500
                      /\ Cardinality(M) = IF positive # {} THEN 1 ELSE 0
                      /\ \A j \in M :
                            LET t == fig[j] IN
                            /\ t.y = 23 - i
                            /\ DOMAIN t.z = DOMAIN t.x
                            /\ DOMAIN t.text = DOMAIN t.x
                            /\ Len(t.x) = Cardinality(positive)
                            /\ Range(t.x) = positive
                            /\ \A n \in DOMAIN t.x :
                                  LET h == z[t.x[n] + 1] IN
                                  /\ t.z[n] = h
                                  /\ t.text[n] = <<"Chr ", str(i), ": ",
                                                   h \div 10, ".", h % 10, " cM">>

\* a chromosome with markers on part of its grid, and one with none
C10_Witness ==
    /\ Built
    /\ \E i \in 1..22 : \E j \in MarkersOf(i) :
          Len(fig[j].x) > 0 /\ Len(fig[j].x) < 500
    /\ \E i \in 1..22 : MarkersOf(i) = {}

=============================================================================
